---- MODULE Spec2Model ----
(***************************************************************************)
(* Model of the mistake-log web application (main.go): the HTTP handlers   *)
(* handleIndex, handleAdd, handleEdit, handleDelete, handleExportCSV and   *)
(* handleRules over one SQLite table `mistakes`.                           *)
(*                                                                         *)
(* Text is modelled as a sequence of one-character strings, so trimming,   *)
(* date parsing, integer parsing, byte-wise comparison and LIKE matching   *)
(* are computed character by character as the Go library and SQLite do.    *)
(***************************************************************************)
EXTENDS Integers, Sequences, FiniteSets, TLC

\* ------------------------------------------------------------------ bounds
\* Largest rowid the table may hand out in the model.
MaxId == 3
\* Largest LIMIT passed to a direct searchMistakes call.
MaxLimit == 3

\* ------------------------------------------------------- characters, text
Digits == {"0", "1", "2", "3", "4", "5", "6", "7", "8", "9"}

\* Unicode white space removed by strings.TrimSpace (the part used here).
WhiteSpace == {" ", "\t", "\n"}

\* Byte value of a character (ASCII), the order SQLite's BINARY collation
\* and Go's string comparison use.
Code(c) ==
  CASE c = "\t" -> 9  [] c = "\n" -> 10 [] c = " " -> 32 [] c = "%" -> 37
    [] c = "+" -> 43  [] c = "-" -> 45
    [] c = "0" -> 48  [] c = "1" -> 49  [] c = "2" -> 50 [] c = "3" -> 51
    [] c = "4" -> 52  [] c = "5" -> 53  [] c = "6" -> 54 [] c = "7" -> 55
    [] c = "8" -> 56  [] c = "9" -> 57
    [] c = "A" -> 65  [] c = "F" -> 70  [] c = "G" -> 71 [] c = "M" -> 77
    [] c = "O" -> 79  [] c = "P" -> 80
    [] c = "_" -> 95
    [] c = "a" -> 97  [] c = "b" -> 98  [] c = "f" -> 102 [] c = "g" -> 103
    [] c = "h" -> 104 [] c = "m" -> 109 [] c = "n" -> 110 [] c = "o" -> 111
    [] c = "p" -> 112 [] c = "q" -> 113 [] c = "x" -> 120
    [] OTHER -> 127

DigitVal(c) == Code(c) - 48

\* strings.TrimSpace: drop leading and trailing white space.
RECURSIVE TrimLeft(_)
TrimLeft(s) ==
  IF s = <<>> THEN <<>>
  ELSE IF Head(s) \in WhiteSpace THEN TrimLeft(Tail(s)) ELSE s

RECURSIVE TrimRight(_)
TrimRight(s) ==
  IF s = <<>> THEN <<>>
  ELSE IF s[Len(s)] \in WhiteSpace THEN TrimRight(SubSeq(s, 1, Len(s) - 1))
       ELSE s

TrimSpace(s) == TrimRight(TrimLeft(s))

\* Byte-wise comparison of two texts (memcmp, then length): a < b.
RECURSIVE StrLess(_, _)
StrLess(a, b) ==
  IF b = <<>> THEN FALSE
  ELSE IF a = <<>> THEN TRUE
  ELSE IF Code(Head(a)) # Code(Head(b)) THEN Code(Head(a)) < Code(Head(b))
  ELSE StrLess(Tail(a), Tail(b))

StrLeq(a, b) == a = b \/ StrLess(a, b)

\* ----------------------------------------------------- time.Parse layout
IsLeap(y) == (y % 4 = 0) /\ ((y % 100 # 0) \/ (y % 400 = 0))

DaysIn(m, y) ==
  IF m = 2 THEN (IF IsLeap(y) THEN 29 ELSE 28)
  ELSE IF m \in {4, 6, 9, 11} THEN 30 ELSE 31

\* time.Parse("2006-01-02", s) succeeds: four digits, '-', two digits, '-',
\* two digits, nothing else; month in 1..12; day in 1..days of that month.
ParseDateOK(s) ==
  /\ Len(s) = 10
  /\ \A i \in {1, 2, 3, 4, 6, 7, 9, 10} : s[i] \in Digits
  /\ s[5] = "-"
  /\ s[8] = "-"
  /\ LET y == 1000 * DigitVal(s[1]) + 100 * DigitVal(s[2])
              + 10 * DigitVal(s[3]) + DigitVal(s[4])
         m == 10 * DigitVal(s[6]) + DigitVal(s[7])
         d == 10 * DigitVal(s[9]) + DigitVal(s[10])
     IN  /\ m >= 1 /\ m <= 12
         /\ d >= 1 /\ d <= DaysIn(m, y)

\* ------------------------------------------------------- strconv.ParseInt
RECURSIVE DigitsValue(_, _)
DigitsValue(s, acc) ==
  IF s = <<>> THEN acc
  ELSE DigitsValue(Tail(s), 10 * acc + DigitVal(Head(s)))

\* strconv.ParseInt(raw, 10, 64): [ok, val].  An optional sign, then one or
\* more decimal digits.  The raw ids of the model have at most two
\* characters, so the 64-bit range error cannot occur.
ParseInt(raw) ==
  LET signed == raw # <<>> /\ Head(raw) \in {"+", "-"}
      body   == IF signed THEN Tail(raw) ELSE raw
      neg    == signed /\ Head(raw) = "-"
  IN  IF body = <<>> \/ \E i \in 1..Len(body) : body[i] \notin Digits
      THEN [ok |-> FALSE, val |-> 0]
      ELSE LET v == DigitsValue(body, 0)
           IN  [ok |-> TRUE, val |-> IF neg THEN 0 - v ELSE v]

\* strconv.FormatInt(n, 10) for n >= 0.
RECURSIVE FormatInt(_)
FormatInt(n) ==
  LET d == CHOOSE c \in Digits : DigitVal(c) = n % 10
  IN  IF n < 10 THEN <<d>> ELSE Append(FormatInt(n \div 10), d)

\* ------------------------------------------------------------ SQLite LIKE
\* LIKE folds the case of ASCII letters only.
FoldCode(c) == IF Code(c) >= 65 /\ Code(c) <= 90 THEN Code(c) + 32 ELSE Code(c)

\* text LIKE pattern, default settings: '%' matches any run of characters
\* (also none), '_' matches exactly one character, there is no escape
\* character, and letters compare without regard to ASCII case.
RECURSIVE LikeMatch(_, _)
LikeMatch(p, s) ==
  IF p = <<>> THEN s = <<>>
  ELSE IF Head(p) = "%"
       THEN LikeMatch(Tail(p), s) \/ (s # <<>> /\ LikeMatch(p, Tail(s)))
  ELSE IF s = <<>> THEN FALSE
  ELSE IF Head(p) = "_" THEN LikeMatch(Tail(p), Tail(s))
  ELSE FoldCode(Head(p)) = FoldCode(Head(s)) /\ LikeMatch(Tail(p), Tail(s))

\* ------------------------------------------------------------- the table
\* Columns of table `mistakes` other than the rowid `id`, which is the key.
Row(topic, date, problem, missed, fix, pattern, created) ==
  [topic |-> topic, date |-> date, problem_statement |-> problem,
   what_i_missed |-> missed, fix_rule |-> fix,
   pattern_to_remember |-> pattern, created_at |-> created]

\* type Mistake struct.
Mistake(id, topic, date, problem, missed, fix, pattern, created) ==
  [ID |-> id, Topic |-> topic, Date |-> date, Problem |-> problem,
   Missed |-> missed, FixRule |-> fix, PatternRemember |-> pattern,
   CreatedAt |-> created]

\* The zero value Mistake{}.
ZeroMistake == Mistake(0, <<>>, <<>>, <<>>, <<>>, <<>>, <<>>, "")

\* rows.Scan / row.Scan of the eight selected columns into a Mistake.
Scan(id, row) ==
  Mistake(id, row.topic, row.date, row.problem_statement, row.what_i_missed,
          row.fix_rule, row.pattern_to_remember, row.created_at)

SetMax(S) == CHOOSE x \in S : \A y \in S : y <= x

\* Variant of NextRowid: a plain INTEGER PRIMARY KEY without AUTOINCREMENT,
\* one more than the largest rowid now in the table.
NextRowid_reuse(d) ==
  (IF DOMAIN d.mistakes = {} THEN 0 ELSE SetMax(DOMAIN d.mistakes)) + 1

\* id INTEGER PRIMARY KEY AUTOINCREMENT: the next rowid is one more than the
\* largest rowid the table has ever held (kept in sqlite_sequence).
NextRowid(d) ==
  LET held == IF DOMAIN d.mistakes = {} THEN 0 ELSE SetMax(DOMAIN d.mistakes)
  IN  (IF d.sqlite_sequence > held THEN d.sqlite_sequence ELSE held) + 1

\* Variant of insertMistake: the arguments for problem_statement and
\* what_i_missed bound in the wrong order.
insertMistake_swapped(d, m) ==
  LET id == NextRowid(d)
      row == Row(m.Topic, m.Date, m.Missed, m.Problem, m.FixRule,
                 m.PatternRemember, m.CreatedAt)
  IN  [mistakes |-> [i \in DOMAIN d.mistakes \cup {id} |->
                       IF i = id THEN row ELSE d.mistakes[i]],
       sqlite_sequence |-> id]

\* INSERT INTO mistakes (topic, date, ..., created_at) VALUES (?, ..., ?).
insertMistake(d, m) ==
  LET id == NextRowid(d)
      row == Row(m.Topic, m.Date, m.Problem, m.Missed, m.FixRule,
                 m.PatternRemember, m.CreatedAt)
  IN  [mistakes |-> [i \in DOMAIN d.mistakes \cup {id} |->
                       IF i = id THEN row ELSE d.mistakes[i]],
       sqlite_sequence |-> id]

\* SELECT ... FROM mistakes WHERE id = ?  -> [err, m]; sql.ErrNoRows when
\* no row has that id.
getMistakeByID(d, id) ==
  IF id \in DOMAIN d.mistakes
  THEN [err |-> "nil", m |-> Scan(id, d.mistakes[id])]
  ELSE [err |-> "ErrNoRows", m |-> ZeroMistake]

\* Variant of updateMistake: the SET list also writes created_at.
updateMistake_touch(d, m) ==
  [d EXCEPT !.mistakes =
     [i \in DOMAIN d.mistakes |->
        IF i = m.ID
        THEN Row(m.Topic, m.Date, m.Problem, m.Missed, m.FixRule,
                 m.PatternRemember, m.CreatedAt)
        ELSE d.mistakes[i]]]

\* Variant of updateMistake: INSERT OR REPLACE, which creates the row when
\* no row has the id.
updateMistake_upsert(d, m) ==
  [d EXCEPT !.mistakes =
     [i \in DOMAIN d.mistakes \cup {m.ID} |->
        IF i = m.ID
        THEN Row(m.Topic, m.Date, m.Problem, m.Missed, m.FixRule,
                 m.PatternRemember,
                 IF i \in DOMAIN d.mistakes THEN d.mistakes[i].created_at
                 ELSE m.CreatedAt)
        ELSE d.mistakes[i]]]

\* UPDATE mistakes SET topic = ?, date = ?, problem_statement = ?,
\* what_i_missed = ?, fix_rule = ?, pattern_to_remember = ? WHERE id = ?.
updateMistake(d, m) ==
  [d EXCEPT !.mistakes =
     [i \in DOMAIN d.mistakes |->
        IF i = m.ID
        THEN [d.mistakes[i] EXCEPT !.topic = m.Topic, !.date = m.Date,
                !.problem_statement = m.Problem, !.what_i_missed = m.Missed,
                !.fix_rule = m.FixRule, !.pattern_to_remember = m.PatternRemember]
        ELSE d.mistakes[i]]]

\* Variant of deleteMistake: WHERE id <= ?.
deleteMistake_range(d, id) ==
  [d EXCEPT !.mistakes =
     [i \in {j \in DOMAIN d.mistakes : j > id} |-> d.mistakes[i]]]

\* DELETE FROM mistakes WHERE id = ?.
deleteMistake(d, id) ==
  [d EXCEPT !.mistakes = [i \in DOMAIN d.mistakes \ {id} |-> d.mistakes[i]]]

\* Variant of Where: `date > ?` for the lower bound.
Where_exclusive(row, q, topic, from, to) ==
  /\ topic # <<>> => row.topic = topic
  /\ from # <<>> => StrLess(from, row.date)
  /\ to # <<>> => StrLeq(row.date, to)
  /\ q # <<>> =>
       LET like == <<"%">> \o q \o <<"%">>
       IN  \/ LikeMatch(like, row.topic)
           \/ LikeMatch(like, row.problem_statement)
           \/ LikeMatch(like, row.what_i_missed)
           \/ LikeMatch(like, row.fix_rule)
           \/ LikeMatch(like, row.pattern_to_remember)

\* The WHERE clause searchMistakes assembles: one conjunct per non-empty
\* filter; the text filter is `col LIKE '%q%'` over five columns, OR-ed.
Where(row, q, topic, from, to) ==
  /\ topic # <<>> => row.topic = topic
  /\ from # <<>> => StrLeq(from, row.date)
  /\ to # <<>> => StrLeq(row.date, to)
  /\ q # <<>> =>
       LET like == <<"%">> \o q \o <<"%">>
       IN  \/ LikeMatch(like, row.topic)
           \/ LikeMatch(like, row.problem_statement)
           \/ LikeMatch(like, row.what_i_missed)
           \/ LikeMatch(like, row.fix_rule)
           \/ LikeMatch(like, row.pattern_to_remember)

\* Variant of OrderBefore: ORDER BY date DESC, id ASC.
OrderBefore_asc(d, i, j) ==
  \/ StrLess(d.mistakes[j].date, d.mistakes[i].date)
  \/ d.mistakes[i].date = d.mistakes[j].date /\ i < j

\* ORDER BY date DESC, id DESC: row i comes before row j.
OrderBefore(d, i, j) ==
  \/ StrLess(d.mistakes[j].date, d.mistakes[i].date)
  \/ d.mistakes[i].date = d.mistakes[j].date /\ i > j

RECURSIVE OrderBy(_, _)
OrderBy(d, ids) ==
  IF ids = {} THEN <<>>
  ELSE LET first == CHOOSE i \in ids :
                      \A j \in ids \ {i} : OrderBefore(d, i, j)
       IN  <<first>> \o OrderBy(d, ids \ {first})

\* LIMIT ?: a negative limit means no limit.
Limit(rows, limit) ==
  IF limit < 0 \/ limit >= Len(rows) THEN rows ELSE SubSeq(rows, 1, limit)

\* searchMistakes(db, q, topic, from, to, limit): the scanned rows in order.
searchMistakes(d, q, topic, from, to, limit) ==
  LET hit == {i \in DOMAIN d.mistakes : Where(d.mistakes[i], q, topic, from, to)}
      ids == Limit(OrderBy(d, hit), limit)
  IN  [k \in 1..Len(ids) |-> Scan(ids[k], d.mistakes[ids[k]])]

\* ------------------------------------------------------------- requests
\* An HTTP request: method, Referer header, URL query parameters and the
\* url-encoded body.  A parameter that is not sent reads as the empty text,
\* as url.Values.Get does.  limit is the row cap of the read path.
Query(id, q, topic, from, to) ==
  [id |-> id, q |-> q, topic |-> topic, from |-> from, to |-> to]

Form(id, topic, date, problem, missed, fix, pattern) ==
  [id |-> id, topic |-> topic, date |-> date, problem_statement |-> problem,
   what_i_missed |-> missed, fix_rule |-> fix, pattern_to_remember |-> pattern]

NoQuery == Query(<<>>, <<>>, <<>>, <<>>, <<>>)
NoForm == Form(<<>>, <<>>, <<>>, <<>>, <<>>, <<>>, <<>>)

Request(handler, method, referer, query, form, limit) ==
  [handler |-> handler, method |-> method, referer |-> referer,
   query |-> query, form |-> form, limit |-> limit]

\* r.FormValue(key): the body's value for POST, PUT and PATCH requests,
\* else the URL query's value, else empty.
FormValue(r, key) ==
  IF r.method \in {"POST", "PUT", "PATCH"} /\ r.form[key] # <<>>
  THEN r.form[key]
  ELSE IF key \in DOMAIN r.query THEN r.query[key] ELSE <<>>

\* Variant of mistakeFromForm: what_i_missed is not trimmed.
mistakeFromForm_untrimmed(r) ==
  LET topic   == TrimSpace(FormValue(r, "topic"))
      date    == TrimSpace(FormValue(r, "date"))
      problem == TrimSpace(FormValue(r, "problem_statement"))
      missed  == FormValue(r, "what_i_missed")
      fix     == TrimSpace(FormValue(r, "fix_rule"))
      pattern == TrimSpace(FormValue(r, "pattern_to_remember"))
  IN  IF \/ topic = <<>> \/ date = <<>> \/ problem = <<>>
         \/ missed = <<>> \/ fix = <<>> \/ pattern = <<>>
      THEN [err |-> "All fields are required.", m |-> ZeroMistake]
      ELSE IF ~ParseDateOK(date)
      THEN [err |-> "Invalid date format. Use YYYY-MM-DD.", m |-> ZeroMistake]
      ELSE [err |-> "nil",
            m |-> Mistake(0, topic, date, problem, missed, fix, pattern, "")]

\* mistakeFromForm(r): [err, m].
mistakeFromForm(r) ==
  LET topic   == TrimSpace(FormValue(r, "topic"))
      date    == TrimSpace(FormValue(r, "date"))
      problem == TrimSpace(FormValue(r, "problem_statement"))
      missed  == TrimSpace(FormValue(r, "what_i_missed"))
      fix     == TrimSpace(FormValue(r, "fix_rule"))
      pattern == TrimSpace(FormValue(r, "pattern_to_remember"))
  IN  IF \/ topic = <<>> \/ date = <<>> \/ problem = <<>>
         \/ missed = <<>> \/ fix = <<>> \/ pattern = <<>>
      THEN [err |-> "All fields are required.", m |-> ZeroMistake]
      ELSE IF ~ParseDateOK(date)
      THEN [err |-> "Invalid date format. Use YYYY-MM-DD.", m |-> ZeroMistake]
      ELSE [err |-> "nil",
            m |-> Mistake(0, topic, date, problem, missed, fix, pattern, "")]

\* Variant of parseIDParam: the form value first, the URL query as fallback.
parseIDParam_form(r) ==
  LET raw == IF FormValue(r, "id") = <<>> THEN r.query.id ELSE FormValue(r, "id")
      p   == ParseInt(raw)
  IN  IF ~p.ok \/ p.val <= 0 THEN [id |-> 0, ok |-> FALSE]
      ELSE [id |-> p.val, ok |-> TRUE]

\* parseIDParam(r, "id"): [id, ok].  The URL query's id; only when that is
\* empty, the form value.
parseIDParam(r) ==
  LET raw == IF r.query.id = <<>> THEN FormValue(r, "id") ELSE r.query.id
      p   == ParseInt(raw)
  IN  IF ~p.ok \/ p.val <= 0 THEN [id |-> 0, ok |-> FALSE]
      ELSE [id |-> p.val, ok |-> TRUE]

\* ------------------------------------------------------------ responses
\* status and Location header, the Mistake handed to edit.html, the rows
\* handed to index.html / rules.html, and the records written as CSV.
Response(status, location, mistake, items, csv) ==
  [status |-> status, location |-> location, mistake |-> mistake,
   items |-> items, csv |-> csv]

\* http.Error(w, msg, code).
Error(code) == Response(code, "", ZeroMistake, <<>>, <<>>)

\* redirectBack(w, r): 303 to the Referer, or to "/" when there is none.
redirectBack(r) ==
  Response(303, IF r.referer = "" THEN "/" ELSE r.referer,
           ZeroMistake, <<>>, <<>>)

\* ---------------------------------------------------------------- inputs
D0105 == <<"2", "0", "2", "4", "-", "0", "1", "-", "0", "5">>
D0229 == <<"2", "0", "2", "4", "-", "0", "2", "-", "2", "9">>
\* Not dates: month 13 and day 40; 29 February of a common year; one-digit
\* month.
D1340 == <<"2", "0", "2", "4", "-", "1", "3", "-", "4", "0">>
D23229 == <<"2", "0", "2", "3", "-", "0", "2", "-", "2", "9">>
D15 == <<"2", "0", "2", "4", "-", "1", "-", "0", "5">>

\* Forms that pass validation (some with white space to trim).
FormA == Form(<<>>, <<" ", "g", "o">>, D0105 \o <<"\n">>, <<"p">>, <<"m">>,
              <<"f">>, <<"a", "_", " ">>)
FormB == Form(<<>>, <<"G", "o">>, D0229, <<"q">>, <<"n">>, <<"h">>, <<"b">>)
FormC == Form(<<>>, <<"g", "o">>, D0105, <<"q">>, <<"m">>, <<"f">>, <<"b">>)

ValidForms == {FormA, FormB}

Required == {"topic", "date", "problem_statement", "what_i_missed",
             "fix_rule", "pattern_to_remember"}

\* Forms that must be refused: one required field empty or white space
\* only, or a date that is not one.
InvalidForms ==
  {[FormB EXCEPT ![k] = v] : k \in Required, v \in {<<>>, <<" ", "\t">>}}
    \cup {[FormB EXCEPT !.date = v] : v \in {D1340, D23229, D15}}

\* time.Now().Format(time.RFC3339) at the moment of an Add.
Instants == {"t1", "t2"}

\* Raw values of the id parameter.
RawIds ==
  {<<>>, <<"0">>, <<"-", "1">>, <<"x">>} \cup {FormatInt(i) : i \in 1..MaxId}

IdQuery(raw) == Query(raw, <<>>, <<>>, <<>>, <<>>)

AddRequests ==
  {Request("add", "POST", "", NoQuery, f, 0) : f \in ValidForms \cup InvalidForms}
    \cup {Request("add", "POST", "/rules", NoQuery, FormA, 0),
          Request("add", "GET", "", NoQuery, FormA, 0)}

EditRequests ==
  {Request("edit", "GET", "", IdQuery(raw), NoForm, 0) : raw \in RawIds}
    \cup {Request("edit", "POST", "", IdQuery(raw), f, 0) :
            raw \in RawIds, f \in ValidForms}
    \cup {Request("edit", "POST", "", IdQuery(FormatInt(1)), f, 0) :
            f \in {[FormB EXCEPT !.topic = <<>>],
                   [FormB EXCEPT !.what_i_missed = <<" ", "\t">>],
                   [FormB EXCEPT !.date = D1340],
                   [FormB EXCEPT !.date = D23229]}}
    \cup {Request("edit", "POST", "/", IdQuery(raw), [FormA EXCEPT !.id = b], 0) :
            raw \in {<<>>, <<"x">>, FormatInt(1)},
            b \in {<<"0">>, FormatInt(1), FormatInt(2)}}
    \cup {Request("edit", "PUT", "", IdQuery(FormatInt(1)), FormA, 0)}

DeleteRequests ==
  {Request("delete", "POST", "", IdQuery(raw), NoForm, 0) : raw \in RawIds}
    \cup {Request("delete", "POST", "/rules", NoQuery,
                  [NoForm EXCEPT !.id = FormatInt(2)], 0),
          Request("delete", "GET", "", IdQuery(FormatInt(1)), NoForm, 0)}

\* ------------------------------------------------------------------ state
VARIABLES
  db,      \* the database: table mistakes (rowid -> row) and sqlite_sequence
  req,     \* the request being served
  resp,    \* the response written for it
  issued   \* history: every rowid an INSERT has assigned so far

vars == <<db, req, resp, issued>>

\* After main(): a new mistakes.db with the schema of initSchema, no rows.
initSchema == [mistakes |-> <<>>, sqlite_sequence |-> 0]

Init ==
  /\ db = initSchema
  /\ req = Request("none", "", "", NoQuery, NoForm, 0)
  /\ resp = Response(0, "", ZeroMistake, <<>>, <<>>)
  /\ issued = {}

\* ---------------------------------------------------------------- handlers
handleAdd(reqs, instants) ==
  \E r \in reqs, now \in instants :
    LET f == mistakeFromForm(r)
    IN  /\ req' = r
        /\ IF r.method # "POST"
           THEN resp' = Error(405) /\ UNCHANGED <<db, issued>>
           ELSE IF f.err # "nil"
           THEN resp' = Error(400) /\ UNCHANGED <<db, issued>>
           ELSE /\ NextRowid(db) <= MaxId
                /\ db' = insertMistake(db, [f.m EXCEPT !.CreatedAt = now])
                /\ issued' = issued \cup (DOMAIN db'.mistakes \ DOMAIN db.mistakes)
                /\ resp' = redirectBack(r)

handleEdit(reqs) ==
  \E r \in reqs :
    LET p == parseIDParam(r)
        f == mistakeFromForm(r)
        g == getMistakeByID(db, p.id)
    IN  /\ req' = r
        /\ CASE r.method = "GET" ->
                  /\ resp' = IF ~p.ok THEN Error(400)
                             ELSE IF g.err = "ErrNoRows" THEN Error(404)
                             ELSE Response(200, "", g.m, <<>>, <<>>)
                  /\ UNCHANGED <<db, issued>>
             [] r.method = "POST" ->
                  IF ~p.ok \/ f.err # "nil"
                  THEN resp' = Error(400) /\ UNCHANGED <<db, issued>>
                  ELSE /\ db' = updateMistake(db, [f.m EXCEPT !.ID = p.id])
                       /\ resp' = redirectBack(r)
                       /\ UNCHANGED issued
             [] OTHER ->
                  resp' = Error(405) /\ UNCHANGED <<db, issued>>

handleDelete(reqs) ==
  \E r \in reqs :
    LET p == parseIDParam(r)
    IN  /\ req' = r
        /\ UNCHANGED issued
        /\ IF r.method # "POST"
           THEN resp' = Error(405) /\ UNCHANGED db
           ELSE IF ~p.ok
           THEN resp' = Error(400) /\ UNCHANGED db
           ELSE db' = deleteMistake(db, p.id) /\ resp' = redirectBack(r)

\* The filter parameters as handleIndex, handleExportCSV and handleRules read
\* them: trimmed; a non-empty from / to must parse as a date.
filters(r) ==
  LET q     == TrimSpace(r.query.q)
      topic == TrimSpace(r.query.topic)
      from  == TrimSpace(r.query.from)
      to    == TrimSpace(r.query.to)
  IN  [q |-> q, topic |-> topic, from |-> from, to |-> to,
       ok |-> /\ (from # <<>> => ParseDateOK(from))
              /\ (to # <<>> => ParseDateOK(to))]

IndexLimit == 200
ExportLimit == 10000
RulesLimit == 500

handleIndex(reqs) ==
  \E r \in reqs :
    LET f == filters(r)
    IN  /\ req' = [r EXCEPT !.limit = IndexLimit]
        /\ UNCHANGED <<db, issued>>
        /\ resp' =
             IF r.method # "GET" THEN Error(405)
             ELSE IF ~f.ok THEN Error(400)
             ELSE Response(200, "", ZeroMistake,
                    searchMistakes(db, f.q, f.topic, f.from, f.to, IndexLimit),
                    <<>>)

CsvHeader == <<"id", "date", "topic", "problem_statement", "what_i_missed",
               "fix_rule", "pattern_to_remember", "created_at">>

CsvRecord(m) ==
  <<FormatInt(m.ID), m.Date, m.Topic, m.Problem, m.Missed, m.FixRule,
    m.PatternRemember, m.CreatedAt>>

handleExportCSV(reqs) ==
  \E r \in reqs :
    LET f == filters(r)
        items == searchMistakes(db, f.q, f.topic, f.from, f.to, ExportLimit)
    IN  /\ req' = [r EXCEPT !.limit = ExportLimit]
        /\ UNCHANGED <<db, issued>>
        /\ resp' =
             IF r.method # "GET" THEN Error(405)
             ELSE IF ~f.ok THEN Error(400)
             ELSE Response(200, "", ZeroMistake, <<>>,
                    <<CsvHeader>> \o [k \in 1..Len(items) |-> CsvRecord(items[k])])

handleRules(reqs) ==
  \E r \in reqs :
    LET f == filters(r)
    IN  /\ req' = [r EXCEPT !.limit = RulesLimit]
        /\ UNCHANGED <<db, issued>>
        /\ resp' =
             IF r.method # "GET" THEN Error(405)
             ELSE IF ~f.ok THEN Error(400)
             ELSE Response(200, "", ZeroMistake,
                    searchMistakes(db, f.q, f.topic, f.from, f.to, RulesLimit),
                    <<>>)

\* A call of searchMistakes on its own, with any limit.
Search(reqs) ==
  \E r \in reqs :
    /\ req' = r
    /\ UNCHANGED <<db, issued>>
    /\ resp' = Response(0, "", ZeroMistake,
                 searchMistakes(db, r.query.q, r.query.topic, r.query.from,
                                r.query.to, r.limit),
                 <<>>)

\* ------------------------------------------------------- search requests
Tgo == <<"g", "o">>
TGo == <<"G", "o">>

\* Every combination of absent / present topic, from and to, no term.
FilterQueries ==
  {Query(<<>>, <<>>, t, f, u) :
     t \in {<<>>, Tgo, TGo}, f \in {<<>>, D0105, D0229}, u \in {<<>>, D0105, D0229}}

\* Terms: plain letters, a digit, LIKE's wildcards, a letter in upper case.
Terms == {<<"p">>, <<"m">>, <<"h">>, <<"b">>, <<"a", "_">>, <<"g", "o">>,
          <<"x">>, <<"2">>, <<"_">>, <<"%">>, <<"G">>}

TermQueries ==
  {Query(<<>>, q, <<>>, <<>>, <<>>) : q \in Terms}
    \cup {Query(<<>>, <<"q">>, Tgo, <<>>, <<>>),
          Query(<<>>, <<"q">>, <<>>, D0229, <<>>)}

\* The unfiltered search with every limit; the filtered ones with the largest
\* limit, and some of them with a limit of one row.
SearchCalls ==
  {Request("searchMistakes", "", "", NoQuery, NoForm, n) : n \in 0..MaxLimit}
    \cup {Request("searchMistakes", "", "", k, NoForm, MaxLimit) :
            k \in FilterQueries \cup TermQueries}
    \cup {Request("searchMistakes", "", "", k, NoForm, 1) :
            k \in {Query(<<>>, <<>>, Tgo, <<>>, <<>>),
                   Query(<<>>, <<>>, <<>>, D0105, D0105),
                   Query(<<>>, <<"m">>, <<>>, <<>>, <<>>)}}

\* Raw query strings for the three read routes.
ReadQueries ==
  {NoQuery,
   Query(<<>>, <<" ", "\t">>, <<" ">>, <<" ">>, <<>>),
   Query(<<>>, <<" ", "p", " ">>, <<>>, <<>>, <<>>),
   Query(<<>>, <<"_">>, <<>>, <<>>, <<>>),
   Query(<<>>, <<>>, <<" ", "g", "o", " ">>, <<>>, <<>>),
   Query(<<>>, <<>>, <<>>, <<" ">> \o D0229, D0229 \o <<" ">>),
   Query(<<>>, <<>>, <<>>, D1340, <<>>),
   Query(<<>>, <<>>, <<>>, <<>>, D23229),
   Query(<<>>, <<>>, <<>>, D0229, D0105)}

ReadRequests(handler) ==
  {Request(handler, "GET", "", k, NoForm, 0) : k \in ReadQueries}
    \cup {Request(handler, "POST", "", NoQuery, NoForm, 0)}

\* The writes that build the table searched.
SearchAddRequests ==
  {Request("add", "POST", "", NoQuery, f, 0) : f \in {FormA, FormB, FormC}}
SearchEditRequests ==
  {Request("edit", m, "", IdQuery(FormatInt(i)), FormB, 0) :
     m \in {"GET", "POST", "PUT"}, i \in 1..MaxId}
SearchDeleteRequests ==
  {Request("delete", "POST", "", IdQuery(FormatInt(i)), NoForm, 0) : i \in 1..MaxId}

Next ==
  \/ handleAdd(AddRequests, Instants)
  \/ handleEdit(EditRequests)
  \/ handleDelete(DeleteRequests)

Spec == Init /\ [][Next]_vars

NextSearch ==
  \/ handleAdd(SearchAddRequests, {"t1"})
  \/ handleEdit(SearchEditRequests)
  \/ handleDelete(SearchDeleteRequests)
  \/ handleIndex(ReadRequests("index"))
  \/ handleExportCSV(ReadRequests("export"))
  \/ handleRules(ReadRequests("rules"))
  \/ Search(SearchCalls)

SpecSearch == Init /\ [][NextSearch]_vars

\* ============================================================ properties
\* The six user-supplied values of a row, of a Mistake, and of a form after
\* trimming.
RowSix(row) ==
  <<row.topic, row.date, row.problem_statement, row.what_i_missed,
    row.fix_rule, row.pattern_to_remember>>

MistakeSix(m) ==
  <<m.Topic, m.Date, m.Problem, m.Missed, m.FixRule, m.PatternRemember>>

FormSix(f) ==
  <<TrimSpace(f.topic), TrimSpace(f.date), TrimSpace(f.problem_statement),
    TrimSpace(f.what_i_missed), TrimSpace(f.fix_rule),
    TrimSpace(f.pattern_to_remember)>>

Ids(d) == DOMAIN d.mistakes

\* A text of white space only (empty once trimmed).
IsBlank(s) == \A i \in 1..Len(s) : s[i] \in WhiteSpace

DigitOf(c) ==
  CASE c = "0" -> 0 [] c = "1" -> 1 [] c = "2" -> 2 [] c = "3" -> 3
    [] c = "4" -> 4 [] c = "5" -> 5 [] c = "6" -> 6 [] c = "7" -> 7
    [] c = "8" -> 8 [] c = "9" -> 9

\* s is a calendar date written YYYY-MM-DD.
IsCalendarDate(s) ==
  /\ Len(s) = 10
  /\ s[5] = "-" /\ s[8] = "-"
  /\ \A i \in (1..10) \ {5, 8} : s[i] \in Digits
  /\ LET y == DigitOf(s[1]) * 1000 + DigitOf(s[2]) * 100
              + DigitOf(s[3]) * 10 + DigitOf(s[4])
         m == DigitOf(s[6]) * 10 + DigitOf(s[7])
         d == DigitOf(s[9]) * 10 + DigitOf(s[10])
         leap == y % 400 = 0 \/ (y % 4 = 0 /\ y % 100 # 0)
         len == <<31, 28, 31, 30, 31, 30, 31, 31, 30, 31, 30, 31>>
     IN  /\ m \in 1..12
         /\ d >= 1
         /\ d <= len[m] + (IF m = 2 /\ leap THEN 1 ELSE 0)

\* The day a calendar date names, as the number YYYYMMDD.
DateNum(s) ==
  DigitOf(s[1]) * 10000000 + DigitOf(s[2]) * 1000000 + DigitOf(s[3]) * 100000
    + DigitOf(s[4]) * 10000 + DigitOf(s[6]) * 1000 + DigitOf(s[7]) * 100
    + DigitOf(s[9]) * 10 + DigitOf(s[10])

\* A form the validation must refuse.
InvalidForm(f) ==
  \/ \E k \in Required : IsBlank(f[k])
  \/ ~IsCalendarDate(TrimSpace(f.date))

\* q occurs in s as a contiguous run of characters.
Contains(q, s) ==
  \E k \in 0..(Len(s) - Len(q)) : SubSeq(s, k + 1, k + Len(q)) = q

\* The last step was a successful Add / Edit-Post / Delete.
Added == req.handler = "add" /\ resp.status = 303
Edited == req.handler = "edit" /\ req.method = "POST" /\ resp.status = 303
Deleted == req.handler = "delete" /\ resp.status = 303
\* The last step was a search that returned rows to render.
Searched ==
  \/ req.handler = "searchMistakes"
  \/ req.handler \in {"index", "rules"} /\ resp.status = 200

\* ---------------------------------------------------------------------
\* C1: after an Add that passed validation, reading back the id the table
\* assigned gives the six values of the form (trimmed); exactly one row is
\* new, and every row that was there before is unchanged.
C1_InsertThenGet ==
  [][Added' =>
       /\ Cardinality(Ids(db') \ Ids(db)) = 1
       /\ \A i \in Ids(db) : i \in Ids(db') /\ db'.mistakes[i] = db.mistakes[i]
       /\ \A id \in Ids(db') \ Ids(db) :
            LET g == getMistakeByID(db', id)
            IN  /\ g.err = "nil"
                /\ g.m.ID = id
                /\ MistakeSix(g.m) = FormSix(req'.form)]_vars

C1_Witness ==
  /\ Added
  /\ Cardinality(Ids(db)) >= 2
  /\ db.sqlite_sequence \in Ids(db)
  /\ db.mistakes[db.sqlite_sequence].what_i_missed = <<"m">>
  /\ req.form.topic = <<" ", "g", "o">>

\* ---------------------------------------------------------------------
\* C2: an Edit-Post for an existing id overwrites the six values of that row
\* with the form's, keeps its created_at and its id, changes no other row,
\* and a later read of the id returns the new values.
C2_UpdateFrame ==
  [][(Edited' /\ parseIDParam(req').id \in Ids(db)) =>
       LET id == parseIDParam(req').id
       IN  /\ Ids(db') = Ids(db)
           /\ db'.sqlite_sequence = db.sqlite_sequence
           /\ RowSix(db'.mistakes[id]) = FormSix(req'.form)
           /\ db'.mistakes[id].created_at = db.mistakes[id].created_at
           /\ \A i \in Ids(db) \ {id} : db'.mistakes[i] = db.mistakes[i]
           /\ getMistakeByID(db', id).err = "nil"
           /\ getMistakeByID(db', id).m.ID = id
           /\ MistakeSix(getMistakeByID(db', id).m) = FormSix(req'.form)
           /\ getMistakeByID(db', id).m.CreatedAt = db.mistakes[id].created_at]_vars

C2_Witness ==
  /\ Edited
  /\ req.query.id = <<"1">>
  /\ {1, 2} \subseteq Ids(db)
  /\ RowSix(db.mistakes[1]) = FormSix(FormB)
  /\ RowSix(db.mistakes[2]) = FormSix(FormA)
  /\ db.mistakes[1].created_at = "t2"

\* ---------------------------------------------------------------------
\* C3: a Delete with a valid id always succeeds; afterwards the id reads as
\* not found, no other row is removed or changed, and when the id had no row
\* (deleted before, or never assigned) the database is left as it was.
C3_DeleteIdempotent ==
  [][(req'.handler = "delete" /\ req'.method = "POST" /\ parseIDParam(req').ok) =>
       LET id == parseIDParam(req').id
       IN  /\ resp'.status = 303
           /\ getMistakeByID(db', id).err = "ErrNoRows"
           /\ Ids(db') = Ids(db) \ {id}
           /\ \A i \in Ids(db') : db'.mistakes[i] = db.mistakes[i]
           /\ id \notin Ids(db) => db' = db]_vars

C3_Witness ==
  /\ Deleted
  /\ parseIDParam(req).id \in issued
  /\ parseIDParam(req).id \notin Ids(db)
  /\ parseIDParam(req).id < db.sqlite_sequence
  /\ Cardinality(Ids(db)) >= 2

\* ---------------------------------------------------------------------
\* C4: a search without filters and with limit L returns the first
\* min(L, number of rows) rows of the whole table in the order newest date
\* first, larger id first within a date, no row twice.
C4_SearchOrder ==
  (Searched /\ filters(req).q = <<>> /\ filters(req).topic = <<>>
            /\ filters(req).from = <<>> /\ filters(req).to = <<>>) =>
    LET items == resp.items
        n == Cardinality(Ids(db))
        Newer(i, j) ==
          \/ DateNum(db.mistakes[i].date) > DateNum(db.mistakes[j].date)
          \/ /\ DateNum(db.mistakes[i].date) = DateNum(db.mistakes[j].date)
             /\ i > j
    IN  /\ Len(items) = IF req.limit < n THEN req.limit ELSE n
        /\ \A k \in 1..Len(items) :
             /\ items[k].ID \in Ids(db)
             /\ items[k] = Scan(items[k].ID, db.mistakes[items[k].ID])
        /\ \A k, l \in 1..Len(items) : k < l => Newer(items[k].ID, items[l].ID)
        /\ \A i \in Ids(db) \ {items[k].ID : k \in 1..Len(items)} :
             \A k \in 1..Len(items) : Newer(items[k].ID, i)

C4_Witness ==
  /\ req.handler = "searchMistakes"
  /\ req.query = NoQuery
  /\ req.limit = 2
  /\ Cardinality(Ids(db)) = 3
  /\ Len(resp.items) = 2
  /\ resp.items[1].Date = resp.items[2].Date
  /\ \E i \in Ids(db) : db.mistakes[i].date # resp.items[1].Date

\* ---------------------------------------------------------------------
\* C5: without a term, a search returns only rows that meet every filter
\* given (topic equal to the topic filter, date on or after from, date on or
\* before to), an empty filter excludes nothing, and when fewer rows than
\* the limit come back they are all the rows that meet the filters.
C5_FiltersAnd ==
  (Searched /\ filters(req).q = <<>>) =>
    LET f == filters(req)
        Sat(i) ==
          /\ f.topic = <<>> \/ db.mistakes[i].topic = f.topic
          /\ f.from = <<>> \/ DateNum(db.mistakes[i].date) >= DateNum(f.from)
          /\ f.to = <<>> \/ DateNum(db.mistakes[i].date) <= DateNum(f.to)
        got == {resp.items[k].ID : k \in 1..Len(resp.items)}
    IN  /\ got \subseteq {i \in Ids(db) : Sat(i)}
        /\ \A k \in 1..Len(resp.items) :
             resp.items[k] = Scan(resp.items[k].ID, db.mistakes[resp.items[k].ID])
        /\ Len(resp.items) < req.limit => got = {i \in Ids(db) : Sat(i)}

C5_Witness ==
  /\ req.handler = "searchMistakes"
  /\ req.query = Query(<<>>, <<>>, Tgo, D0105, D0105)
  /\ Len(resp.items) = 1
  /\ req.limit > 1
  /\ \E i \in Ids(db) : db.mistakes[i].topic = TGo
  /\ \E i \in Ids(db) : db.mistakes[i].topic = Tgo /\ db.mistakes[i].date = D0105

\* ---------------------------------------------------------------------
\* C6: with a non-empty term, a search returns only rows in which the term
\* itself occurs as a contiguous run of characters in topic,
\* problem_statement, what_i_missed, fix_rule or pattern_to_remember (and
\* that meet the other filters), and all of them when fewer rows than the
\* limit come back; a term that is empty once trimmed filters nothing.
C6_TermSubstring ==
  Searched =>
    LET f == filters(req)
        Sat(i) ==
          /\ f.topic = <<>> \/ db.mistakes[i].topic = f.topic
          /\ f.from = <<>> \/ DateNum(db.mistakes[i].date) >= DateNum(f.from)
          /\ f.to = <<>> \/ DateNum(db.mistakes[i].date) <= DateNum(f.to)
          /\ \/ f.q = <<>>
             \/ Contains(f.q, db.mistakes[i].topic)
             \/ Contains(f.q, db.mistakes[i].problem_statement)
             \/ Contains(f.q, db.mistakes[i].what_i_missed)
             \/ Contains(f.q, db.mistakes[i].fix_rule)
             \/ Contains(f.q, db.mistakes[i].pattern_to_remember)
        got == {resp.items[k].ID : k \in 1..Len(resp.items)}
    IN  /\ got \subseteq {i \in Ids(db) : Sat(i)}
        /\ Len(resp.items) < req.limit => got = {i \in Ids(db) : Sat(i)}

\* ---------------------------------------------------------------------
\* C7: an Add or Edit-Post whose form has a required field that is empty
\* once trimmed, or a date that is not a calendar date YYYY-MM-DD, is
\* answered 400 and leaves the database as it was (stated here from the
\* other side: a POST that is not answered 400, or that changes the
\* database, carried a form with none of these faults); so every row of the
\* table always has six non-empty trimmed values and a calendar date.
C7_ValidationRejects ==
  /\ [][(req'.handler \in {"add", "edit"} /\ req'.method = "POST"
           /\ (resp'.status # 400 \/ db' # db))
          => ~InvalidForm(req'.form)]_vars
  /\ [](\A i \in Ids(db) :
          /\ \A k \in 1..6 :
               LET v == RowSix(db.mistakes[i])[k]
               IN  v # <<>> /\ v[1] \notin WhiteSpace /\ v[Len(v)] \notin WhiteSpace
          /\ IsCalendarDate(db.mistakes[i].date))

C7_Witness ==
  /\ req.handler = "edit"
  /\ req.method = "POST"
  /\ resp.status = 400
  /\ req.query.id = <<"1">>
  /\ 1 \in Ids(db)
  /\ IsBlank(req.form.what_i_missed)
  /\ req.form.what_i_missed # <<>>

\* ---------------------------------------------------------------------
\* C8: an Add never assigns an id that was assigned before, also not the id
\* of a deleted row that held the highest id; no step gives an existing row
\* another id (no step both removes an id and brings in a new one, and an
\* Edit-Post keeps the set of ids).
C8_IdNeverReused ==
  [][/\ \A id \in Ids(db') \ Ids(db) : id \notin issued
     /\ Ids(db') \ Ids(db) # {} => Ids(db) \subseteq Ids(db')
     /\ req'.handler = "edit" => Ids(db') = Ids(db)]_vars

C8_Witness ==
  /\ Added
  /\ db.sqlite_sequence >= 2
  /\ db.sqlite_sequence \in Ids(db)
  /\ (db.sqlite_sequence - 1) \in issued
  /\ (db.sqlite_sequence - 1) \notin Ids(db)

\* ---------------------------------------------------------------------
\* C9 as stated: a successful Edit-Post changes only the row named by the
\* id of the URL query, and the id of the form body never decides the row.
C9_UrlIdOnly ==
  [][Edited' =>
       /\ ParseInt(req'.query.id).ok
       /\ \A i \in Ids(db) :
            db'.mistakes[i] # db.mistakes[i] => i = ParseInt(req'.query.id).val]_vars

\* C9 amended: a successful Edit-Post updates the row named by the id of the
\* URL query whenever the URL query has a non-empty id, whatever id the form
\* body carries; only when the URL query has no id does the id of the form
\* body name the row.
C9_UrlIdFirst ==
  [][Edited' =>
       LET raw == IF req'.query.id # <<>> THEN req'.query.id ELSE req'.form.id
           id == ParseInt(raw).val
       IN  /\ ParseInt(raw).ok
           /\ id > 0
           /\ Ids(db') = Ids(db)
           /\ \A i \in Ids(db) \ {id} : db'.mistakes[i] = db.mistakes[i]
           /\ id \in Ids(db) => RowSix(db'.mistakes[id]) = FormSix(req'.form)]_vars

C9_Witness ==
  /\ Edited
  /\ req.query.id = <<"1">>
  /\ req.form.id = <<"2">>
  /\ {1, 2} \subseteq Ids(db)
  /\ RowSix(db.mistakes[1]) = FormSix(FormA)
  /\ RowSix(db.mistakes[2]) = FormSix(FormB)

\* ---------------------------------------------------------------------
\* C10: an Edit-Post with a valid form for an id that has no row (never
\* assigned, or deleted since the form was fetched) is answered with the
\* redirect and leaves the database as it was: no row is created or brought
\* back.
C10_UpdateMissingNoop ==
  [][(req'.handler = "edit" /\ req'.method = "POST" /\ ~InvalidForm(req'.form)
        /\ parseIDParam(req').ok /\ parseIDParam(req').id \notin Ids(db)) =>
       /\ resp'.status = 303
       /\ resp'.location = (IF req'.referer = "" THEN "/" ELSE req'.referer)
       /\ db' = db]_vars

C10_Witness ==
  /\ Edited
  /\ parseIDParam(req).id \in issued
  /\ parseIDParam(req).id \notin Ids(db)
  /\ Ids(db) # {}

====
